---- MODULE Spec2Model ----
(***************************************************************************)
(* Model of the 3D FDTD solver of src/src/main.rs: the host control thread *)
(* of run() (source injection, command encoding, submission, blocking      *)
(* readback, record emission) and the device queue it drives.              *)
(*                                                                         *)
(* The grid and the number of steps are shrunk (NX, NY, NZ, MAX_TIME,      *)
(* PROBE_OFFSET).  Field values are fixed-point integers; coefficients are *)
(* fixed-point with COEF_ONE standing for 1.0, in normalised units         *)
(* (DX = C0 = EPS0 = MU0 = 1), so that DT = Sc.  An f32 result of           *)
(* gaussian_source is a mantissa and a binary exponent, with the           *)
(* underflow of single precision.                                          *)
(***************************************************************************)
EXTENDS Integers, Sequences, FiniteSets, TLC

\* ---------------------------------------------------------------- bounds
NX == 6
NY == 3
NZ == 3
MAX_TIME == 5
PROBE_OFFSET == 2
\* inputs of the pure functions
MaxExtent == 80
MaxStep == 300
MaxSc == 10

\* ------------------------------------------------------- program constants
TOTAL == NX * NY * NZ
\* Courant number, in tenths (0.5)
SC == 5
\* 1.0 as a coefficient (ca_val, cp_val), in tenths
COEF_ONE == 10
PULSE_WIDTH == 20
PULSE_DELAY == 40
\* 1.0 as a source or field value
SRC_ONE == 4096

SRC_I == NX \div 2
SRC_J == NY \div 2
SRC_K == NZ \div 2
PROBE_I_OffByOne == NX \div 2 + PROBE_OFFSET - 1

\* Probe location: PROBE_OFFSET cells from the source along x
PROBE_I == NX \div 2 + PROBE_OFFSET
PROBE_J == NY \div 2
PROBE_K == NZ \div 2

FieldNames == {"ex", "ey", "ez", "hx", "hy", "hz"}
CoefNames == {"ca", "cb", "cp", "cq"}

VARIABLES
    cfg,            \* the configuration the run was built with
    pc,             \* position of the host thread in run()
    n,              \* loop variable of the time loop
    buf,            \* contents of the device buffers (fields, coefficients, params)
    readback,       \* content of the staging buffer buf_readback
    mapState,       \* "unmapped" | "mapped"
    mapPending,     \* number of outstanding map_async requests
    pendingWrites,  \* queue.write_buffer calls staged for the next submit
    encoder,        \* commands recorded in the current command encoder
    devQueue,       \* commands submitted and not yet started on the device
    running,        \* the command the device is executing, or <<>>
    chan,           \* the mpsc channel between the map callback and the host
    value,          \* the host's local `value`
    out,            \* the records printed so far
    log,            \* history of the events of the run
    call            \* a call of one of the pure functions: argument and result

vars == <<call, cfg, pc, n, buf, readback, mapState, mapPending, pendingWrites,
          encoder, devQueue, running, chan, value, out, log>>

\* ---------------------------------------------------------------- helpers

idx_NoStride(i, j, k) == i + NX * (j + k)

idx(i, j, k) == i + NX * (j + NY * k)

CellI(c, nx) == c % nx
CellJ(c, nx, ny) == (c \div nx) % ny
CellK(c, nx, ny) == c \div (nx * ny)

Pow2(e) == IF e >= 30 THEN 2147483647
           ELSE LET RECURSIVE P(_)
                    P(x) == IF x = 0 THEN 1 ELSE 2 * P(x - 1)
                IN P(e)

\* An f32 in (0, 1]: mant / SRC_ONE * 2^(-exp) with mant in (SRC_ONE/2, SRC_ONE];
\* 0.0 is F32Zero.
F32(mant, exp) == [mant |-> mant, exp |-> exp]

F32Zero == F32(0, 0)

\* The smallest positive f32 is 2^(-149): the cast to f32 rounds a value
\* of at most 2^(-150) to 0.0.
F32_MIN_EXP == 149

\* exp(-p/q) as f32: range reduction by ln 2, a Taylor polynomial on the
\* remainder, and the underflow of the cast `as f32`.
ExpNeg(p, q) ==
    LET m    == (p * 1000) \div (q * 693)
        rnum == p * 1000 - m * q * 693
        r    == (rnum * SRC_ONE) \div (q * 1000)
        t2   == (r * r) \div (2 * SRC_ONE)
        t3   == (t2 * r) \div (3 * SRC_ONE)
        t4   == (t3 * r) \div (4 * SRC_ONE)
        t5   == (t4 * r) \div (5 * SRC_ONE)
        t6   == (t5 * r) \div (6 * SRC_ONE)
        mant == SRC_ONE - r + t2 - t3 + t4 - t5 + t6
    IN  IF m > F32_MIN_EXP THEN F32Zero ELSE F32(mant, m)

gaussian_source_LateDelay(step) ==
    LET t == step - (PULSE_DELAY + 1)
    IN  ExpNeg(t * t, PULSE_WIDTH * PULSE_WIDTH)

gaussian_source(step) ==
    LET t == step - PULSE_DELAY
    IN  ExpNeg(t * t, PULSE_WIDTH * PULSE_WIDTH)

\* The content of a field cell that holds the f32 v (fields are fixed point,
\* SRC_ONE = 1.0).
FieldValue(v) == v.mant \div Pow2(v.exp)

\* Physical constants and grid spacing, in the normalised units of the model.
C0 == 1
EPS0 == 1
MU0 == 1
DX == 1

\* Time step of Courant number sc (tenths): DT = SC * DX / C0.
DT(sc) == (sc * DX) \div C0

build_coefficients_Swapped(sc) ==
    [ca |-> [c \in 0 .. TOTAL - 1 |-> DT(sc) \div EPS0],
     cb |-> [c \in 0 .. TOTAL - 1 |-> COEF_ONE],
     cp |-> [c \in 0 .. TOTAL - 1 |-> COEF_ONE],
     cq |-> [c \in 0 .. TOTAL - 1 |-> DT(sc) \div MU0]]

\* build_coefficients with the time step of Courant number sc (tenths):
\* vec![ca_val; TOTAL] and so on.
build_coefficients(sc) ==
    [ca |-> [c \in 0 .. TOTAL - 1 |-> COEF_ONE],
     cb |-> [c \in 0 .. TOTAL - 1 |-> DT(sc) \div EPS0],
     cp |-> [c \in 0 .. TOTAL - 1 |-> COEF_ONE],
     cq |-> [c \in 0 .. TOTAL - 1 |-> DT(sc) \div MU0]]

zeros == [c \in 0 .. TOTAL - 1 |-> 0]

params == [nx |-> NX, ny |-> NY, nz |-> NZ, inv_dx |-> 1, inv_dy |-> 1, inv_dz |-> 1]

\* The entries of the bind-group layout "fdtd_bgl": <<binding, type>>.
bgl_entries ==
    << <<0, "uniform">>,
       <<1, "read_only">>, <<2, "read_only">>, <<3, "read_only">>,
       <<4, "read_write">>, <<5, "read_write">>, <<6, "read_write">>,
       <<7, "read_only">>, <<8, "read_only">> >>

\* The entries of the bind groups "bg_h" and "bg_e": <<binding, buffer>>.
bg_h_entries ==
    << <<0, "params">>,
       <<1, "ex">>, <<2, "ey">>, <<3, "ez">>,
       <<4, "hx">>, <<5, "hy">>, <<6, "hz">>,
       <<7, "cp">>, <<8, "cq">> >>

bg_e_entries ==
    << <<0, "params">>,
       <<1, "hx">>, <<2, "hy">>, <<3, "hz">>,
       <<4, "ex">>, <<5, "ey">>, <<6, "ez">>,
       <<7, "ca">>, <<8, "cb">> >>

\* What a list of entries binds: binding -> second component.
Bound(entries) ==
    [s \in {entries[i][1] : i \in DOMAIN entries} |->
       entries[CHOOSE i \in DOMAIN entries : entries[i][1] = s][2]]

\* Bind-group layout: slot -> kind of binding.
bgl == Bound(bgl_entries)

bg_h_AsE == Bound(bg_e_entries)

\* Bind groups: slot -> buffer.
bg_h == Bound(bg_h_entries)

bg_e_CoefInOutput ==
    Bound(<< <<0, "params">>,
             <<1, "hx">>, <<2, "hy">>, <<3, "hz">>,
             <<4, "ex">>, <<5, "ey">>, <<6, "cb">>,
             <<7, "ca">>, <<8, "ez">> >>)

bg_e == Bound(bg_e_entries)

\* Both pipelines are created with the pipeline layout "fdtd_pl" = [bgl].
pipeline_layout == <<bgl_entries>>

pipeline_h == [module |-> "update_h", layout |-> pipeline_layout]

pipeline_e_OwnLayout ==
    [module |-> "update_e",
     layout |-> << << <<0, "uniform">>,
                      <<1, "read_write">>, <<2, "read_write">>, <<3, "read_write">>,
                      <<4, "read_only">>, <<5, "read_only">>, <<6, "read_only">>,
                      <<7, "read_only">>, <<8, "read_only">> >> >>]

pipeline_e == [module |-> "update_e", layout |-> pipeline_layout]

wg_count_Floor(extent) == extent \div 4

wg_count(extent) == (extent + 3) \div 4

probe_byte_offset(c) == idx(c.probeI, c.probeJ, c.probeK) * 4
src_byte_offset(c) == idx(c.srcI, c.srcJ, c.srcK) * 4

NoCmd == <<>>

Cmd(op, label, step, bg, off, val) ==
    [op |-> op, label |-> label, step |-> step, bg |-> bg, off |-> off, val |-> val,
     pipeline |-> "", wg |-> <<0, 0, 0>>]

\* set_pipeline; set_bind_group(0, bg); dispatch_workgroups(wg_x, wg_y, wg_z)
Dispatch(label, step, pipeline, bg, wg) ==
    [op |-> "dispatch", label |-> label, step |-> step, bg |-> bg, off |-> 0, val |-> 0,
     pipeline |-> pipeline.module, wg |-> wg]

\* Workgroup counts (workgroup_size = 4x4x4)
wg_x == wg_count(NX)
wg_y == wg_count(NY)
wg_z == wg_count(NZ)

Event(ev, ph, step, val) == [ev |-> ev, ph |-> ph, step |-> step, val |-> val]

CmdName(cmd) == IF cmd.op = "dispatch" THEN cmd.label ELSE cmd.op

\* A 4-byte access at byte offset off lies inside a field buffer.
InBuffer(off) == off >= 0 /\ off + 4 <= TOTAL * 4

\* ------------------------------------------------------------- the kernels
\* (shaders/update_h.wgsl and shaders/update_e.wgsl: one invocation per cell,
\* guarded against cells outside the grid; a neighbour outside the grid reads
\* as 0.)

At(f, p, i, j, k) ==
    IF i >= 0 /\ i < p.nx /\ j >= 0 /\ j < p.ny /\ k >= 0 /\ k < p.nz
    THEN f[i + p.nx * (j + p.ny * k)]
    ELSE 0

\* The cells some invocation of a dispatch of wg_count workgroups of 4x4x4 reaches.
Covered(c, p, wg) ==
    /\ CellI(c, p.nx) < wg[1] * 4
    /\ CellJ(c, p.nx, p.ny) < wg[2] * 4
    /\ CellK(c, p.nx, p.ny) < wg[3] * 4

\* curl of (a1, a2, a3) by forward differences, component 1..3, at cell c
CurlFwd(comp, a1, a2, a3, p, c) ==
    LET i == CellI(c, p.nx)
        j == CellJ(c, p.nx, p.ny)
        k == CellK(c, p.nx, p.ny)
    IN  IF comp = 1
        THEN (At(a3, p, i, j + 1, k) - a3[c]) * p.inv_dy
             - (At(a2, p, i, j, k + 1) - a2[c]) * p.inv_dz
        ELSE IF comp = 2
        THEN (At(a1, p, i, j, k + 1) - a1[c]) * p.inv_dz
             - (At(a3, p, i + 1, j, k) - a3[c]) * p.inv_dx
        ELSE (At(a2, p, i + 1, j, k) - a2[c]) * p.inv_dx
             - (At(a1, p, i, j + 1, k) - a1[c]) * p.inv_dy

\* curl of (a1, a2, a3) by backward differences
CurlBwd(comp, a1, a2, a3, p, c) ==
    LET i == CellI(c, p.nx)
        j == CellJ(c, p.nx, p.ny)
        k == CellK(c, p.nx, p.ny)
    IN  IF comp = 1
        THEN (a3[c] - At(a3, p, i, j - 1, k)) * p.inv_dy
             - (a2[c] - At(a2, p, i, j, k - 1)) * p.inv_dz
        ELSE IF comp = 2
        THEN (a1[c] - At(a1, p, i, j, k - 1)) * p.inv_dz
             - (a3[c] - At(a3, p, i - 1, j, k)) * p.inv_dx
        ELSE (a2[c] - At(a2, p, i - 1, j, k)) * p.inv_dx
             - (a1[c] - At(a1, p, i, j - 1, k)) * p.inv_dy

\* H <- CP*H - CQ*curl E
update_h(comp, b, bg, wg) ==
    LET p == b[bg[0]]
        o == b[bg[3 + comp]]
    IN  [c \in DOMAIN o |->
           IF c < p.nx * p.ny * p.nz /\ Covered(c, p, wg)
           THEN (b[bg[7]][c] * o[c]
                 - b[bg[8]][c] * CurlFwd(comp, b[bg[1]], b[bg[2]], b[bg[3]], p, c))
                \div COEF_ONE
           ELSE o[c]]

\* E <- CA*E + CB*curl H
update_e(comp, b, bg, wg) ==
    LET p == b[bg[0]]
        o == b[bg[3 + comp]]
    IN  [c \in DOMAIN o |->
           IF c < p.nx * p.ny * p.nz /\ Covered(c, p, wg)
           THEN (b[bg[7]][c] * o[c]
                 + b[bg[8]][c] * CurlBwd(comp, b[bg[1]], b[bg[2]], b[bg[3]], p, c))
                \div COEF_ONE
           ELSE o[c]]

\* The effect of one dispatch on the buffers: slots 4..6 are written.
DispatchEffect(b, cmd) ==
    LET bg == cmd.bg
        new(comp) == IF cmd.pipeline = "update_h" THEN update_h(comp, b, bg, cmd.wg)
                     ELSE update_e(comp, b, bg, cmd.wg)
    IN  [x \in DOMAIN b |->
           IF x = bg[4] THEN new(1)
           ELSE IF x = bg[5] THEN new(2)
           ELSE IF x = bg[6] THEN new(3)
           ELSE b[x]]

\* ------------------------------------------------------------------ Init

CodeConfig ==
    [srcI |-> SRC_I, srcJ |-> SRC_J, srcK |-> SRC_K,
     probeI |-> PROBE_I, probeJ |-> PROBE_J, probeK |-> PROBE_K, sc |-> SC]

\* The buffers as create_buffer_init leaves them.
InitialBuffers(c) ==
    [x \in FieldNames \cup CoefNames \cup {"params"} |->
       IF x \in FieldNames THEN zeros
       ELSE IF x = "params" THEN params
       ELSE build_coefficients(c.sc)[x]]

InitWith(c) ==
    /\ cfg = c
    /\ pc = "loop"
    /\ n = 0
    /\ buf = InitialBuffers(c)
    /\ readback = 0
    /\ mapState = "unmapped"
    /\ mapPending = 0
    /\ pendingWrites = <<>>
    /\ encoder = <<>>
    /\ devQueue = <<>>
    /\ running = NoCmd
    /\ chan = <<>>
    /\ value = 0
    /\ out = <<>>
    /\ log = <<>>

NoCall == [fn |-> "none", arg |-> 0, res |-> 0, done |-> FALSE]

Init == InitWith(CodeConfig) /\ call = NoCall

\* Configurations obtained by editing the constants of lines 17-47: source
\* and probe coordinates inside the grid and one past it, Courant numbers
\* 0.5 and 0.6.
ConfigSpace ==
    [srcI : {SRC_I, NX}, srcJ : {SRC_J}, srcK : {SRC_K, NZ},
     probeI : {PROBE_I, NX}, probeJ : {PROBE_J}, probeK : {PROBE_K, NZ},
     sc : {SC, SC + 1}]

InitCfg == (\E c \in ConfigSpace : InitWith(c)) /\ call = NoCall

\* ------------------------------------------------------- the host thread

LoopCond_Inclusive(k) == k <= MAX_TIME

\* for n in 0..MAX_TIME
LoopCond(k) == k < MAX_TIME

LoopHead ==
    /\ pc = "loop"
    /\ IF LoopCond(n)
       THEN /\ pc' = "inject"
            /\ out' = out
       ELSE /\ pc' = "done"
            /\ out' = Append(out, [kind |-> "complete", step |-> n, value |-> 0])
    /\ UNCHANGED <<call, cfg, n, buf, readback, mapState, mapPending, pendingWrites,
                   encoder, devQueue, running, chan, value, log>>

\* let src_val = gaussian_source(n); queue.write_buffer(&buf_ez, src_byte_offset, ..)
Inject ==
    /\ pc = "inject"
    /\ IF InBuffer(src_byte_offset(cfg))
       THEN /\ pendingWrites' = Append(pendingWrites,
                   Cmd("write", "ez", n, <<>>, src_byte_offset(cfg),
                       FieldValue(gaussian_source(n))))
            /\ log' = Append(log, Event("inject", "host", n,
                                        FieldValue(gaussian_source(n))))
            /\ pc' = "encode_h"
       ELSE /\ pc' = "panicked"
            /\ UNCHANGED <<pendingWrites, log>>
    /\ UNCHANGED <<call, cfg, n, buf, readback, mapState, mapPending,
                   encoder, devQueue, running, chan, value, out>>

fdtd_step_EBeforeH(step, c) ==
    <<Dispatch("E", step, pipeline_e, bg_e, <<wg_x, wg_y, wg_z>>),
      Dispatch("H", step, pipeline_h, bg_h, <<wg_x, wg_y, wg_z>>),
      Cmd("copy", "ez", step, <<>>, probe_byte_offset(c), 0)>>

\* The command buffer "fdtd_step" of one iteration, in encoding order.
fdtd_step(step, c) ==
    <<Dispatch("H", step, pipeline_h, bg_h, <<wg_x, wg_y, wg_z>>),
      Dispatch("E", step, pipeline_e, bg_e, <<wg_x, wg_y, wg_z>>),
      Cmd("copy", "ez", step, <<>>, probe_byte_offset(c), 0)>>

\* create_command_encoder; compute pass "H update"
EncodeH ==
    /\ pc = "encode_h"
    /\ encoder' = <<fdtd_step(n, cfg)[1]>>
    /\ pc' = "encode_e"
    /\ UNCHANGED <<call, cfg, n, buf, readback, mapState, mapPending, pendingWrites,
                   devQueue, running, chan, value, out, log>>

\* compute pass "E update"
EncodeE ==
    /\ pc = "encode_e"
    /\ encoder' = Append(encoder, fdtd_step(n, cfg)[2])
    /\ pc' = "encode_copy"
    /\ UNCHANGED <<call, cfg, n, buf, readback, mapState, mapPending, pendingWrites,
                   devQueue, running, chan, value, out, log>>

\* encoder.copy_buffer_to_buffer(&buf_ez, probe_byte_offset, &buf_readback, 0, 4)
EncodeCopy ==
    /\ pc = "encode_copy"
    /\ IF InBuffer(fdtd_step(n, cfg)[3].off)
       THEN /\ encoder' = Append(encoder, fdtd_step(n, cfg)[3])
            /\ pc' = "submit"
       ELSE /\ pc' = "panicked"
            /\ UNCHANGED encoder
    /\ UNCHANGED <<call, cfg, n, buf, readback, mapState, mapPending, pendingWrites,
                   devQueue, running, chan, value, out, log>>

SubmitOrder_CommandsFirst(writes, commands) == commands \o writes

\* The order in which a submit puts the staged writes and the command buffer
\* on the queue: the writes of write_buffer first.
SubmitOrder(writes, commands) == writes \o commands

\* queue.submit(Some(encoder.finish()))
Submit ==
    /\ pc = "submit"
    /\ IF mapState = "unmapped" /\ mapPending = 0
       THEN /\ devQueue' = devQueue \o SubmitOrder(pendingWrites, encoder)
            /\ pendingWrites' = <<>>
            /\ encoder' = <<>>
            /\ log' = Append(log, Event("submit", "host", n, 0))
            /\ pc' = "map_async"
       ELSE /\ pc' = "panicked"
            /\ UNCHANGED <<devQueue, pendingWrites, encoder, log>>
    /\ UNCHANGED <<call, cfg, n, buf, readback, mapState, mapPending,
                   running, chan, value, out>>

\* slice.map_async(MapMode::Read, move |result| tx.send(result).unwrap())
MapAsync ==
    /\ pc = "map_async"
    /\ mapPending' = mapPending + 1
    /\ pc' = "poll"
    /\ UNCHANGED <<call, cfg, n, buf, readback, mapState, pendingWrites,
                   encoder, devQueue, running, chan, value, out, log>>

PollReady_NoWait == TRUE

\* device.poll(Maintain::Wait) returns once the device has finished all
\* submitted work.
PollReady == devQueue = <<>> /\ running = NoCmd

\* device.poll(Maintain::Wait): waits, resolves the pending mapping and runs
\* its callback, which sends the result on the channel.
Poll ==
    /\ pc = "poll"
    /\ PollReady
    /\ mapPending > 0
    /\ \E r \in (IF mapState = "unmapped" THEN {"Ok", "Err"} ELSE {"Err"}) :
          /\ chan' = Append(chan, r)
          /\ mapState' = IF r = "Ok" THEN "mapped" ELSE mapState
          /\ log' = Append(log, Event(IF r = "Ok" THEN "mapped" ELSE "map_err",
                                      "host", n, 0))
    /\ mapPending' = mapPending - 1
    /\ pc' = "recv"
    /\ UNCHANGED <<call, cfg, n, buf, readback, pendingWrites,
                   encoder, devQueue, running, value, out>>

RecvNext_Retry(r) == IF r = "Ok" THEN "read" ELSE "map_async"

\* .unwrap().unwrap() on the received result: a failed mapping panics.
RecvNext(r) == IF r = "Ok" THEN "read" ELSE "panicked"

\* rx.recv().unwrap().unwrap()
Recv ==
    /\ pc = "recv"
    /\ chan # <<>>
    /\ chan' = Tail(chan)
    /\ pc' = RecvNext(Head(chan))
    /\ UNCHANGED <<call, cfg, n, buf, readback, mapState, mapPending, pendingWrites,
                   encoder, devQueue, running, value, out, log>>

\* let data = slice.get_mapped_range(); let value = *from_bytes(&data); drop(data)
ReadMapped ==
    /\ pc = "read"
    /\ IF mapState = "mapped"
       THEN /\ value' = readback
            /\ log' = Append(log, Event("read", "host", n, readback))
            /\ pc' = "unmap"
       ELSE /\ pc' = "panicked"
            /\ UNCHANGED <<value, log>>
    /\ UNCHANGED <<call, cfg, n, buf, readback, mapState, mapPending, pendingWrites,
                   encoder, devQueue, running, chan, out>>

UnmapResult_Forgotten(s) == s

\* The state buf_readback.unmap() leaves the staging buffer in.
UnmapResult(s) == "unmapped"

\* buf_readback.unmap()
Unmap ==
    /\ pc = "unmap"
    /\ mapState' = UnmapResult(mapState)
    /\ log' = Append(log, Event("unmap", "host", n, 0))
    /\ pc' = "print"
    /\ UNCHANGED <<call, cfg, n, buf, readback, mapPending, pendingWrites,
                   encoder, devQueue, running, chan, value, out>>

\* println!("t={:4}  Ez[probe] = {:.6e}", n, value); next iteration
PrintRecord ==
    /\ pc = "print"
    /\ out' = Append(out, [kind |-> "record", step |-> n, value |-> value])
    /\ log' = Append(log, Event("emit", "host", n, value))
    /\ n' = n + 1
    /\ pc' = "loop"
    /\ UNCHANGED <<call, cfg, buf, readback, mapState, mapPending, pendingWrites,
                   encoder, devQueue, running, chan, value>>

\* ------------------------------------------------------------ the device
\* The queue executes the submitted commands one at a time, in order.

ProbeCell(c) == probe_byte_offset(c) \div 4

CopyValue_SourceCell(b, cmd) == b[cmd.label][src_byte_offset(cfg) \div 4]

\* The 4 bytes copy_buffer_to_buffer moves into the staging buffer.
CopyValue(b, cmd) == b[cmd.label][cmd.off \div 4]

WriteEffect_Additive(b, cmd) ==
    [b EXCEPT ![cmd.label][cmd.off \div 4] = @ + cmd.val]

\* The effect of a queue.write_buffer of 4 bytes once the queue executes it.
WriteEffect(b, cmd) ==
    [b EXCEPT ![cmd.label][cmd.off \div 4] = cmd.val]

CopyEffect_Reversed(b, cmd) ==
    [b EXCEPT ![cmd.label][cmd.off \div 4] = readback]

\* The effect of copy_buffer_to_buffer on the device buffers other than its
\* destination, the staging buffer: none.
CopyEffect(b, cmd) == b

DeviceBegin ==
    /\ pc \notin {"panicked", "done"}
    /\ running = NoCmd
    /\ devQueue # <<>>
    /\ running' = Head(devQueue)
    /\ devQueue' = Tail(devQueue)
    /\ log' = Append(log, Event(CmdName(Head(devQueue)), "begin",
                                Head(devQueue).step, 0))
    /\ UNCHANGED <<call, cfg, pc, n, buf, readback, mapState, mapPending, pendingWrites,
                   encoder, chan, value, out>>

DeviceEnd ==
    /\ pc \notin {"panicked", "done"}
    /\ running # NoCmd
    /\ buf' = IF running.op = "write"
              THEN WriteEffect(buf, running)
              ELSE IF running.op = "dispatch"
              THEN DispatchEffect(buf, running)
              ELSE CopyEffect(buf, running)
    /\ readback' = IF running.op = "copy"
                   THEN CopyValue(buf, running)
                   ELSE readback
    /\ log' = Append(log, Event(CmdName(running), "end", running.step,
                                buf'["ez"][ProbeCell(cfg)]))
    /\ running' = NoCmd
    /\ UNCHANGED <<call, cfg, pc, n, mapState, mapPending, pendingWrites,
                   encoder, devQueue, chan, value, out>>

Next ==
    \/ LoopHead
    \/ Inject
    \/ EncodeH
    \/ EncodeE
    \/ EncodeCopy
    \/ Submit
    \/ MapAsync
    \/ Poll
    \/ Recv
    \/ ReadMapped
    \/ Unmap
    \/ PrintRecord
    \/ DeviceBegin
    \/ DeviceEnd

Spec == Init /\ [][Next]_vars

\* The host thread keeps running and the device completes what is submitted.
FairSpec == Spec /\ WF_vars(Next)

\* The run under any configuration of ConfigSpace.
SpecCfg == InitCfg /\ [][Next]_vars

\* ------------------------------------------- calls of the pure functions
\* (the index computation, the workgroup count, build_coefficients and
\* gaussian_source, each called on its own with one input)

Coords == (0 .. NX - 1) \X (0 .. NY - 1) \X (0 .. NZ - 1)

PureCalls ==
    [fn : {"wg_count"}, arg : 1 .. MaxExtent, res : {0}, done : {FALSE}]
    \cup [fn : {"idx"}, arg : Coords \X Coords, res : {0}, done : {FALSE}]
    \cup [fn : {"build_coefficients"}, arg : 1 .. MaxSc, res : {0}, done : {FALSE}]
    \cup [fn : {"gaussian_source"}, arg : 0 .. MaxStep, res : {0}, done : {FALSE}]

InitPure ==
    /\ call \in PureCalls
    /\ cfg = CodeConfig
    /\ pc = "pure"
    /\ n = 0
    /\ buf = InitialBuffers(CodeConfig)
    /\ readback = 0
    /\ mapState = "unmapped"
    /\ mapPending = 0
    /\ pendingWrites = <<>>
    /\ encoder = <<>>
    /\ devQueue = <<>>
    /\ running = NoCmd
    /\ chan = <<>>
    /\ value = 0
    /\ out = <<>>
    /\ log = <<>>

Return(fn, res) ==
    /\ pc = "pure"
    /\ call.fn = fn
    /\ ~call.done
    /\ call' = [call EXCEPT !.res = res, !.done = TRUE]
    /\ UNCHANGED <<cfg, pc, n, buf, readback, mapState, mapPending, pendingWrites,
                   encoder, devQueue, running, chan, value, out, log>>

Apply_wg_count == Return("wg_count", wg_count(call.arg))

Apply_idx ==
    Return("idx", <<idx(call.arg[1][1], call.arg[1][2], call.arg[1][3]),
                    idx(call.arg[2][1], call.arg[2][2], call.arg[2][3])>>)

Apply_build_coefficients == Return("build_coefficients", build_coefficients(call.arg))

Apply_gaussian_source == Return("gaussian_source", gaussian_source(call.arg))

NextPure ==
    \/ Apply_wg_count
    \/ Apply_idx
    \/ Apply_build_coefficients
    \/ Apply_gaussian_source

\* The run of the program, and each pure function called on each input.
SpecPure == (Init \/ InitPure) /\ [][Next \/ NextPure]_vars

\* ================================================================ claims

IsPrefix(a, b) == Len(a) <= Len(b) /\ \A i \in 1 .. Len(a) : a[i] = b[i]

Key(e) == <<e.ev, e.ph, e.step>>

Keys(l) == [i \in 1 .. Len(l) |-> Key(l[i])]

Positions(ev, ph, step) == {i \in 1 .. Len(log) : Key(log[i]) = <<ev, ph, step>>}

Happened(ev, ph, step) == \E i \in 1 .. Len(log) : Key(log[i]) = <<ev, ph, step>>

Count(ev, ph, step) == Cardinality(Positions(ev, ph, step))

DeviceIdle == devQueue = <<>> /\ running = NoCmd

Records == SelectSeq(out, LAMBDA r : r.kind = "record")

\* ---------------------------------------------------------------- C1
\* The events of one step, in the order the claim gives them.
StepOrder ==
    << <<"inject", "host">>,
       <<"write", "begin">>, <<"write", "end">>,
       <<"H", "begin">>, <<"H", "end">>,
       <<"E", "begin">>, <<"E", "end">>,
       <<"copy", "begin">>, <<"copy", "end">>,
       <<"read", "host">>, <<"emit", "host">> >>

ExpectedOrder ==
    [i \in 1 .. Len(StepOrder) * MAX_TIME |->
       LET k == (i - 1) \div Len(StepOrder)
           j == ((i - 1) % Len(StepOrder)) + 1
       IN  <<StepOrder[j][1], StepOrder[j][2], k>>]

IsOrderEvent(e) == <<e.ev, e.ph>> \in {StepOrder[j] : j \in 1 .. Len(StepOrder)}

\* C1: in every step the events occur in the strict order injection, source
\* write, H-update (begin, end), E-update (begin, end), probe copy, host read,
\* record; step after step: the history of the run is always a prefix of that
\* one sequence.
C1_StepOrder == IsPrefix(Keys(SelectSeq(log, IsOrderEvent)), ExpectedOrder)

C1_Witness == Happened("emit", "host", 1)

\* ---------------------------------------------------------------- C2
\* C2: at most one command sequence is in flight: every command on the device
\* belongs to the current step; whenever the host is before or at the submit
\* of a step, the device is idle, no mapping is outstanding and every earlier
\* step has been read and emitted; each step is submitted once, in
\* increasing order.
C2_OneInFlight ==
    /\ \A i \in 1 .. Len(devQueue) : devQueue[i].step = n
    /\ running # NoCmd => running.step = n
    /\ pc \in {"loop", "inject", "encode_h", "encode_e", "encode_copy", "submit"} =>
          /\ DeviceIdle
          /\ mapPending = 0
          /\ chan = <<>>
          /\ Len(Records) = n
          /\ \A k \in 0 .. n - 1 : Happened("copy", "end", k) /\ Happened("read", "host", k)
    /\ LET subs == SelectSeq(log, LAMBDA e : e.ev = "submit")
       IN  \A i \in 1 .. Len(subs) : subs[i].step = i - 1

C2_Witness == running # NoCmd /\ running.step = 1 /\ running.op = "dispatch"

\* ---------------------------------------------------------------- C3
\* C3: the value of the record labelled k is the content of the Ez probe cell
\* at the moment E-update(k) completed, and it was read after the copy of
\* step k had executed.
C3_ProbeIsStepValue ==
    \A i \in 1 .. Len(Records) :
       LET k == Records[i].step
       IN  \E a \in Positions("E", "end", k) :
              /\ log[a].val = Records[i].value
              /\ \E b \in Positions("copy", "end", k) :
                    /\ a < b
                    /\ \E c \in Positions("read", "host", k) : b < c

C3_Witness ==
    /\ Len(Records) >= 2
    /\ Records[1].value # Records[2].value
    /\ Records[2].value # 0

\* ---------------------------------------------------------------- C4
ReadSet(bg) == {bg[s] : s \in {s \in 0 .. 8 : bgl[s] \in {"read_only", "uniform"}}}
WriteSet(bg) == {bg[s] : s \in {s \in 0 .. 8 : bgl[s] = "read_write"}}

WiredAs(bg, ins, outs, coefs) ==
    /\ <<bg[1], bg[2], bg[3]>> = ins
    /\ <<bg[4], bg[5], bg[6]>> = outs
    /\ <<bg[7], bg[8]>> = coefs

C4_Wiring ==
    (running # NoCmd /\ running.op = "dispatch") =>
       /\ running.label = "H" =>
             WiredAs(running.bg, <<"ex", "ey", "ez">>, <<"hx", "hy", "hz">>, <<"cp", "cq">>)
       /\ running.label = "E" =>
             WiredAs(running.bg, <<"hx", "hy", "hz">>, <<"ex", "ey", "ez">>, <<"ca", "cb">>)
       /\ ReadSet(running.bg) \cap WriteSet(running.bg) = {}

C4_Frame ==
    (running # NoCmd /\ running.op = "dispatch" /\ running' = NoCmd) =>
       \A x \in DOMAIN buf :
          buf'[x] # buf[x] =>
             /\ x \in WriteSet(running.bg)
             /\ x \notin ReadSet(running.bg)
             /\ x \in (IF running.label = "H" THEN {"hx", "hy", "hz"}
                       ELSE {"ex", "ey", "ez"})

\* C4: every dispatch the device runs is wired H: (Ex,Ey,Ez) -> (Hx,Hy,Hz)
\* with (CP,CQ), E: (Hx,Hy,Hz) -> (Ex,Ey,Ez) with (CA,CB); no buffer of a
\* binding set is bound both readable and writable, and a dispatch changes
\* only fields it does not read.
C4_BindingSets == [](C4_Wiring) /\ [][C4_Frame]_vars

C4_Witness ==
    /\ running # NoCmd /\ running.op = "dispatch" /\ running.label = "E"
    /\ running.step = 1
    /\ buf["hy"] # zeros

\* ---------------------------------------------------------------- C5
SrcCell(c) == src_byte_offset(c) \div 4

\* C5: the host's injection for a step is issued only while the device is
\* idle and after the E-update and the probe copy of the previous step have
\* completed; a staged injection never waits behind commands of an earlier
\* step; and when the H-update of step k starts, the Ez source cell holds f(k).
C5_InjectionNoRace ==
    /\ pc = "inject" =>
          /\ DeviceIdle
          /\ n > 0 => Happened("E", "end", n - 1) /\ Happened("copy", "end", n - 1)
    /\ pendingWrites # <<>> =>
          /\ DeviceIdle
          /\ \A i \in 1 .. Len(pendingWrites) : pendingWrites[i].step = n
    /\ (running # NoCmd /\ running.op = "write") =>
          \A i \in 1 .. Len(log) : log[i].step = running.step => log[i].ev \notin {"H", "E", "copy"}
    /\ (running # NoCmd /\ running.op = "dispatch" /\ running.label = "H") =>
          buf["ez"][SrcCell(cfg)] = FieldValue(gaussian_source(running.step))

C5_Witness ==
    /\ running # NoCmd /\ running.op = "dispatch" /\ running.label = "H"
    /\ running.step = 1
    /\ buf["ez"][SrcCell(cfg)] # readback

\* ---------------------------------------------------------------- C6
MapFailed == \E i \in 1 .. Len(log) : log[i].ev = "map_err"

C6_Final ==
    pc = "done" =>
       /\ Len(out) = MAX_TIME + 1
       /\ \A i \in 1 .. MAX_TIME : out[i].kind = "record" /\ out[i].step = i - 1
       /\ out[MAX_TIME + 1].kind = "complete"
       /\ n = MAX_TIME
       /\ DeviceIdle /\ pendingWrites = <<>> /\ encoder = <<>>
       /\ mapPending = 0 /\ mapState = "unmapped"
       /\ \A k \in 0 .. MAX_TIME - 1 :
             /\ Count("inject", "host", k) = 1
             /\ Count("H", "end", k) = 1
             /\ Count("E", "end", k) = 1
             /\ Count("read", "host", k) = 1
       /\ \A i \in 1 .. Len(log) : log[i].step < MAX_TIME

\* C6: if no mapping fails, the run ends in the final state, where exactly one
\* record per step 0 .. MAX_TIME-1 has been emitted in increasing order,
\* followed by the completion message, every step was injected, dispatched
\* and read exactly once, and nothing happens afterwards.
C6_Terminates ==
    /\ [](C6_Final)
    /\ [][pc = "done" => UNCHANGED vars]_vars
    /\ <>(pc = "done" \/ MapFailed)

C6_Witness == pc = "done" /\ ~MapFailed /\ Len(Records) = MAX_TIME

\* ---------------------------------------------------------------- C7
CoordsInGrid(c) ==
    /\ c.srcI \in 0 .. NX - 1 /\ c.srcJ \in 0 .. NY - 1 /\ c.srcK \in 0 .. NZ - 1
    /\ c.probeI \in 0 .. NX - 1 /\ c.probeJ \in 0 .. NY - 1 /\ c.probeK \in 0 .. NZ - 1

NothingIssued == log = <<>> /\ pendingWrites = <<>> /\ encoder = <<>> /\ devQueue = <<>>

\* C7: with a source or probe coordinate outside the grid no injection write,
\* dispatch or probe copy is ever issued.
C7_OutOfBoundsRejected == ~CoordsInGrid(cfg) => NothingIssued

\* ---------------------------------------------------------------- C8
\* Sc > 1/sqrt(3), with Sc in tenths: 3 * Sc^2 > 100
CourantViolated(sc) == 3 * sc * sc > 100

\* C8: with a Courant number above the 3D stability bound no dispatch occurs.
C8_CourantRejected ==
    CourantViolated(cfg.sc) =>
       /\ encoder = <<>>
       /\ \A i \in 1 .. Len(log) : log[i].ev \notin {"submit", "H", "E"}

\* ---------------------------------------------------------------- C9
FailedStep(k) == Happened("map_err", "host", k)

C9_State ==
    /\ \A k \in 0 .. MAX_TIME :
          /\ Count("submit", "host", k) <= 1
          /\ Count("mapped", "host", k) + Count("map_err", "host", k) <= 1
          /\ FailedStep(k) =>
                /\ pc \in {"recv", "panicked"}
                /\ n = k
                /\ ~Happened("read", "host", k)
                /\ ~Happened("emit", "host", k)
                /\ \A i \in 1 .. Len(log) : log[i].step <= k
                /\ Len(out) = k
                /\ \A i \in 1 .. k : out[i].kind = "record" /\ out[i].step = i - 1
    /\ \A i \in 1 .. Len(Records) : Happened("mapped", "host", Records[i].step)
    /\ pc = "panicked" => FailedStep(n)

C9_Step ==
    /\ pc = "panicked" => UNCHANGED vars
    /\ IsPrefix(out, out')
    /\ MapFailed => out' = out

\* C9: a mapping that fails at step k aborts the run at step k: no record for
\* step k, nothing of a later step, the records of the earlier steps kept; no
\* step is submitted twice and no mapping is resolved twice; a record is only
\* emitted for a step whose mapping was delivered successfully.
C9_SyncFailureFatal == [](C9_State) /\ [][C9_Step]_vars

C9_Witness == pc = "panicked" /\ FailedStep(2) /\ Len(out) = 2

\* ---------------------------------------------------------------- C10
\* C10: the staging buffer is unmapped from the top of a step until the poll
\* of that step; it is mapped only when the device is idle and the copy of
\* the current step has completed; the host reads it only while it is
\* mapped; at most one mapping request is outstanding, and only between
\* map_async and poll.
C10_MappingScoped ==
    /\ pc \in {"loop", "inject", "encode_h", "encode_e", "encode_copy", "submit",
               "map_async", "poll", "print", "done"} => mapState = "unmapped"
    /\ mapState = "mapped" =>
          /\ DeviceIdle
          /\ Happened("copy", "end", n)
          /\ pc \in {"recv", "read", "unmap"}
    /\ pc = "read" => mapState = "mapped"
    /\ \A i \in 1 .. Len(log) :
          log[i].ev = "read" =>
             \E a \in Positions("mapped", "host", log[i].step) : a < i
    /\ mapPending <= 1
    /\ mapPending = 1 => pc = "poll"
    /\ \A k \in 0 .. MAX_TIME : Count("unmap", "host", k) <= Count("mapped", "host", k)

C10_Witness == mapState = "mapped" /\ pc = "unmap" /\ n = 1

\* ---------------------------------------------------------------- C11
WriteEnds == running # NoCmd /\ running.op = "write" /\ running' = NoCmd

C11_Step ==
    /\ WriteEnds =>
          /\ buf'["ez"][SrcCell(cfg)] = FieldValue(gaussian_source(running.step))
          /\ \A c \in DOMAIN buf["ez"] : c # SrcCell(cfg) => buf'["ez"][c] = buf["ez"][c]
          /\ \A x \in DOMAIN buf : x # "ez" => buf'[x] = buf[x]
    /\ (pc = "inject" /\ pc' # pc) => buf' = buf

C11_StepZero ==
    /\ ~Happened("write", "end", 0) => \A f \in FieldNames : buf[f] = zeros
    /\ (Happened("write", "end", 0) /\ ~Happened("H", "end", 0)) =>
          /\ \A f \in FieldNames \ {"ez"} : buf[f] = zeros
          /\ \A c \in DOMAIN buf["ez"] : c # SrcCell(cfg) => buf["ez"][c] = 0
          /\ buf["ez"][SrcCell(cfg)] = FieldValue(gaussian_source(0))
          /\ buf["ez"][SrcCell(cfg)] # 0

\* C11: when the queue executes the injection of step k, the Ez source cell
\* becomes f(k) whatever it held, and no other cell of Ez and no other buffer
\* changes; the host call itself changes no buffer; before the injection of
\* step 0 all six fields are zero and right after it only the Ez source cell
\* is not.
C11_HardSource == [](C11_StepZero) /\ [][C11_Step]_vars

C11_Witness ==
    /\ Happened("write", "end", 1) /\ ~Happened("H", "begin", 1)
    /\ buf["ez"][SrcCell(cfg)] = FieldValue(gaussian_source(1))
    /\ \E c \in DOMAIN buf["ez"] : c # SrcCell(cfg) /\ buf["ez"][c] # 0
    /\ buf["hy"] # zeros

\* ---------------------------------------------------------------- C12
ReadOnlyBuffers == CoefNames \cup {"params"}

AllCommands ==
    {pendingWrites[i] : i \in 1 .. Len(pendingWrites)}
    \cup {encoder[i] : i \in 1 .. Len(encoder)}
    \cup {devQueue[i] : i \in 1 .. Len(devQueue)}
    \cup (IF running = NoCmd THEN {} ELSE {running})

C12_State ==
    /\ \A x \in CoefNames : buf[x] = build_coefficients(cfg.sc)[x]
    /\ buf["params"] = params
    /\ \A cmd \in AllCommands :
          /\ cmd.op = "write" => cmd.label \in FieldNames
          /\ cmd.op = "dispatch" =>
                /\ WriteSet(cmd.bg) \cap ReadOnlyBuffers = {}
                /\ \A sl \in DOMAIN cmd.bg :
                      cmd.bg[sl] \in ReadOnlyBuffers => bgl[sl] \in {"read_only", "uniform"}

C12_Step == \A x \in ReadOnlyBuffers : buf'[x] = buf[x]

\* C12: the coefficient maps and the parameter block always hold what was
\* uploaded at creation: no step changes them, no write_buffer targets them
\* and every dispatch binds them in read-only or uniform slots only.
C12_CoefficientsImmutable == [](C12_State) /\ [][C12_Step]_vars

C12_Witness == pc = "done" /\ Len(Records) = MAX_TIME /\ buf["hy"] # zeros /\ buf["ez"] # zeros

\* ---------------------------------------------------------------- C13
\* The buffers after k steps of a run that has no probe: per step the
\* injection, the H-update and the E-update, and nothing else.
RECURSIVE NoProbeRun(_, _)
NoProbeRun(c, k) ==
    IF k = 0 THEN InitialBuffers(c)
    ELSE LET b0 == NoProbeRun(c, k - 1)
             b1 == [b0 EXCEPT !["ez"][SrcCell(c)] = FieldValue(gaussian_source(k - 1))]
             b2 == DispatchEffect(b1, Dispatch("H", k - 1, pipeline_h, bg_h, <<wg_x, wg_y, wg_z>>))
         IN  DispatchEffect(b2, Dispatch("E", k - 1, pipeline_e, bg_e, <<wg_x, wg_y, wg_z>>))

C13_State == pc \in {"loop", "done"} => buf = NoProbeRun(cfg, n)

C13_Step ==
    /\ buf' # buf =>
          /\ running # NoCmd /\ running' = NoCmd
          /\ running.op \in {"write", "dispatch"}
          /\ pc' = pc
    /\ (readback' # readback \/ mapState' # mapState \/ value' # value) => buf' = buf

\* C13: the probe copy and the host readback (poll, recv, read, unmap) leave
\* every field, coefficient and parameter buffer unchanged: only injections
\* and dispatches change a buffer, and at every step boundary the buffers
\* equal those of a run of the same steps without any probe.
C13_ProbePassive == [](C13_State) /\ [][C13_Step]_vars

C13_Witness == pc = "loop" /\ n = 3 /\ readback # 0 /\ value = readback

\* ---------------------------------------------------------------- C14
Returned(fn) == call.fn = fn /\ call.done

DispatchesOf(step) ==
    {c \in AllCommands : c.op = "dispatch" /\ c.step = step}

\* C14: the workgroup count of an extent N >= 1 is ceil(N/4): count*4 >= N,
\* (count-1)*4 < N, 16 for N = 64 and 17 for N = 65; and every dispatch of
\* a step, H or E, carries the same counts, those of the grid's extents.
C14_WorkgroupCount ==
    /\ Returned("wg_count") =>
          /\ call.res * 4 >= call.arg
          /\ (call.res - 1) * 4 < call.arg
          /\ call.arg = 64 => call.res = 16
          /\ call.arg = 65 => call.res = 17
    /\ \A c \in AllCommands :
          c.op = "dispatch" =>
             /\ c.wg = <<wg_count(NX), wg_count(NY), wg_count(NZ)>>
             /\ \A d \in DispatchesOf(c.step) : d.wg = c.wg

C14_Witness == Returned("wg_count") /\ call.arg = 65 /\ call.res = 17

\* ---------------------------------------------------------------- C16
\* The 4-byte ranges at byte offsets a and b do not overlap.
Disjoint4(a, b) == a + 4 <= b \/ b + 4 <= a

C16_Index ==
    Returned("idx") =>
       /\ \A r \in {call.res[1], call.res[2]} :
             /\ r \in 0 .. TOTAL - 1
             /\ InBuffer(4 * r)
       /\ call.arg[1] # call.arg[2] =>
             /\ call.res[1] # call.res[2]
             /\ Disjoint4(4 * call.res[1], 4 * call.res[2])
       /\ call.arg[1] = call.arg[2] => call.res[1] = call.res[2]
       /\ {idx(c[1], c[2], c[3]) : c \in Coords} = 0 .. TOTAL - 1

C16_Accesses ==
    \A c \in AllCommands :
       /\ c.op = "write" => c.off = src_byte_offset(cfg)
       /\ c.op = "copy"  => c.off = probe_byte_offset(cfg)
       /\ c.op \in {"write", "copy"} =>
             /\ InBuffer(c.off)
             /\ \A d \in AllCommands :
                   (d.op \in {"write", "copy"} /\ d.op # c.op) => Disjoint4(c.off, d.off)

\* C16: idx maps the in-grid coordinates one-to-one onto 0 .. TOTAL-1:
\* distinct cells get distinct indices, every index is below the field
\* length, so the 4 bytes at offset 4*idx lie inside the buffer and those
\* of distinct cells do not overlap; the source write and the probe copy
\* of the run are such accesses, inside the Ez buffer and disjoint.
C16_IndexBijective == C16_Index /\ C16_Accesses

C16_Witness ==
    /\ Returned("idx")
    /\ call.arg[1] = <<NX - 1, NY - 1, NZ - 1>>
    /\ call.arg[2] = <<0, 1, 0>>
    /\ call.res = <<TOTAL - 1, NX>>

\* ---------------------------------------------------------------- C17
Uniform(map, v) == \A c \in DOMAIN map : map[c] = v

C17_Maps(sc, m) ==
    /\ DOMAIN m = {"ca", "cb", "cp", "cq"}
    /\ \A x \in DOMAIN m :
          /\ DOMAIN m[x] = 0 .. TOTAL - 1
          /\ Cardinality(DOMAIN m[x]) = NX * NY * NZ
          /\ DOMAIN m[x] = DOMAIN zeros
    /\ Uniform(m.ca, COEF_ONE)
    /\ Uniform(m.cp, COEF_ONE)
    /\ Uniform(m.cb, DT(sc) \div EPS0)
    /\ Uniform(m.cq, DT(sc) \div MU0)
    /\ DT(sc) \div EPS0 > 0
    /\ DT(sc) \div MU0 > 0

\* C17: build_coefficients returns four maps of exactly NX*NY*NZ entries
\* each (the length of a field), each with the same value at every cell:
\* CA and CP are 1, CB is dt/eps0 and CQ is dt/mu0, both strictly positive;
\* the coefficient buffers of the run hold these maps.
C17_Coefficients ==
    /\ Returned("build_coefficients") => C17_Maps(call.arg, call.res)
    /\ C17_Maps(cfg.sc, [x \in CoefNames |-> buf[x]])

C17_Witness ==
    /\ Returned("build_coefficients")
    /\ call.arg = SC
    /\ call.res.cb[TOTAL - 1] = SC
    /\ call.res.ca[0] = COEF_ONE

\* ---------------------------------------------------------------- C18
\* Order of the f32 values of the model against 0.0 and 1.0.
IsZero(v) == v.mant = 0
Positive(v) == v.mant > 0
AtMostOne(v) == v.mant <= SRC_ONE /\ v.exp >= 0
IsOne(v) == v = F32(SRC_ONE, 0)

C18_Symmetric ==
    (Returned("gaussian_source") /\ 2 * PULSE_DELAY - call.arg >= 0)
       => call.res = gaussian_source(2 * PULSE_DELAY - call.arg)

C18_Peak ==
    (Returned("gaussian_source") /\ call.arg = PULSE_DELAY) => IsOne(call.res)

\* C18 as stated: symmetric about the delay, exactly 1.0 at the delay, and
\* every other step gives a value in (0, 1].
C18_Original ==
    /\ C18_Symmetric
    /\ C18_Peak
    /\ Returned("gaussian_source") => (Positive(call.res) /\ AtMostOne(call.res))

\* C18, amended: gaussian_source(delay - d) = gaussian_source(delay + d) for
\* every d <= delay, gaussian_source(delay) = 1.0 exactly, and every other
\* step gives a value in [0, 1], below 1.0, which is exactly 0.0 once the
\* result is too small for an f32 (far from the delay).
C18_Waveform ==
    /\ C18_Symmetric
    /\ C18_Peak
    /\ Returned("gaussian_source") =>
          /\ IsZero(call.res) \/ Positive(call.res)
          /\ AtMostOne(call.res)
          /\ call.arg # PULSE_DELAY => ~IsOne(call.res)
          /\ IsZero(call.res) => call.arg > 2 * PULSE_DELAY

\* A step of the 300-step run of the program whose source value is 0.0.
C18_Witness ==
    /\ Returned("gaussian_source")
    /\ call.arg < 300
    /\ IsZero(call.res)

\* ---------------------------------------------------------------- C15
\* The kind of binding the layout is to have in slot s.
SlotKind(s) ==
    IF s = 0 THEN "uniform"
    ELSE IF s \in 4 .. 6 THEN "read_write"
    ELSE "read_only"

C15_Layout ==
    /\ pipeline_h.layout = pipeline_e.layout
    /\ Len(pipeline_h.layout) = 1
    /\ pipeline_h.layout[1] = bgl_entries
    /\ Len(bgl_entries) = 9
    /\ \A s \in 0 .. 8 : bgl_entries[s + 1] = <<s, SlotKind(s)>>

C15_Set(entries) ==
    /\ Len(entries) = 9
    /\ \A s \in 0 .. 8 : Cardinality({i \in DOMAIN entries : entries[i][1] = s}) = 1
    /\ \A i \in DOMAIN entries :
          /\ entries[i][1] = 0 => entries[i][2] = "params"
          /\ entries[i][1] \in 1 .. 6 => entries[i][2] \in FieldNames
          /\ entries[i][1] \in 7 .. 8 => entries[i][2] \in CoefNames

C15_Used ==
    \A c \in AllCommands :
       c.op = "dispatch" =>
          \/ c.pipeline = pipeline_h.module /\ c.bg = Bound(bg_h_entries)
          \/ c.pipeline = pipeline_e.module /\ c.bg = Bound(bg_e_entries)

\* C15: both pipelines are created with one shared layout of exactly 9
\* slots, in order: slot 0 uniform, slots 1-3 read-only storage, slots 4-6
\* read-write storage, slots 7-8 read-only storage; each of the two bind
\* groups fills every slot 0..8 exactly once, with the parameter block in
\* slot 0, field buffers only in slots 1-6 and coefficient buffers only in
\* slots 7-8; every dispatch runs one of the pipelines with its bind group.
C15_SharedLayout ==
    /\ C15_Layout
    /\ C15_Set(bg_h_entries)
    /\ C15_Set(bg_e_entries)
    /\ C15_Used

C15_Witness ==
    /\ running # NoCmd
    /\ running.op = "dispatch"
    /\ running.pipeline = "update_e"
    /\ running.step = 1
    /\ Happened("H", "end", 1)

\* ---------------------------------------------------------------- C19
\* The step at which a wave of speed Sc cells per step, leaving the source
\* at step 0, is PROBE_OFFSET cells away: offset / Sc.
ArrivalStep == (PROBE_OFFSET * COEF_ONE) \div SC

\* x-distance of cell c from the source cell
DistX(c) ==
    LET d == CellI(c, NX) - cfg.srcI
    IN  IF d < 0 THEN -d ELSE d

====
